---- MODULE Spec2Model ----
(***************************************************************************)
(* Planetes: the physics and orbital-mechanics core (orbits.js,            *)
(* spacecraft.js, bodies.js) and the game loop (main.js).                  *)
(*                                                                         *)
(* Numbers.  The program computes with JavaScript Numbers: floating point  *)
(* with a bounded significand, round-to-nearest-even after every           *)
(* operation, gradual underflow, overflow to Infinity and NaN.  The model  *)
(* keeps all of that and shortens the format: a Number is                  *)
(* [m |-> mantissa, e |-> exponent], value m * 10^e, with |m| < 10^Digits  *)
(* and ExpMin <= e <= ExpMax.  Every program constant is written with the  *)
(* digits the source gives it.                                             *)
(***************************************************************************)
EXTENDS Integers, Sequences, FiniteSets, TLC

\* ------------------------------------------------------------ Number format
Digits == 8
ExpMax == 30
ExpMin == -45
MantMax == 10^Digits
MantMin == 10^(Digits - 1)
HalfBase == 10^(Digits \div 2)

F(m, e) == [m |-> m, e |-> e]
Zero == F(0, 0)
One == F(MantMin, 1 - Digits)
NaN == F(0, ExpMax + 1)
PosInf == F(1, ExpMax + 1)
NegInf == F(-1, ExpMax + 1)

IsNaN(x) == x.e > ExpMax /\ x.m = 0
IsInf(x) == x.e > ExpMax /\ x.m # 0
IsFinite(x) == x.e <= ExpMax

Sgn(n) == IF n < 0 THEN -1 ELSE 1
AbsI(n) == IF n < 0 THEN -n ELSE n
MaxI(a, b) == IF a >= b THEN a ELSE b
MinI(a, b) == IF a <= b THEN a ELSE b

NumDigits(n) ==
    IF n < 10^4
    THEN (IF n < 10^2 THEN (IF n < 10 THEN (IF n = 0 THEN 0 ELSE 1) ELSE 2)
                      ELSE (IF n < 10^3 THEN 3 ELSE 4))
    ELSE IF n < 10^8
    THEN (IF n < 10^6 THEN (IF n < 10^5 THEN 5 ELSE 6)
                      ELSE (IF n < 10^7 THEN 7 ELSE 8))
    ELSE (IF n < 10^9 THEN 9 ELSE 10)

\* A finite result, or the infinity of its sign when the exponent is out of range.
Pack(s, m, e) ==
    IF m = 0 THEN Zero
    ELSE IF e > ExpMax THEN F(s, ExpMax + 1)
    ELSE F(s * m, e)

\* The quotient q of the cut, one more when the remainder r is above the half,
\* or at the half with q odd or digits beyond; a carry out of the mantissa
\* moves the exponent.
RoundCut(s, e, q, r, half, sticky) ==
    IF r > half \/ (r = half /\ (sticky \/ q % 2 = 1))
    THEN (IF q + 1 = MantMax THEN Pack(s, MantMin, e + 1) ELSE Pack(s, q + 1, e))
    ELSE Pack(s, q, e)

\* n of d digits loses its k last digits (k <= 0: it is widened to the format
\* as far as the exponent allows).
RoundBy(s, n, e, sticky, d, k) ==
    IF k <= 0
    THEN Pack(s, n * 10^MinI(Digits - d, e - ExpMin), e - MinI(Digits - d, e - ExpMin))
    ELSE IF k > 9 THEN Zero
    ELSE RoundCut(s, e + k, n \div 10^k, n % 10^k, 5 * 10^(k - 1), sticky)

RoundAt(s, n, e, sticky, d) ==
    RoundBy(s, n, e, sticky, d, MaxI(d - Digits, ExpMin - e))

\* Round s * (n + d) * 10^e to the format, nearest-even; 0 < d < 1 when sticky
\* (then n carries at least one digit more than the format), d = 0 otherwise.
Round(s, n, e, sticky) ==
    IF n = 0 THEN Zero ELSE RoundAt(s, n, e, sticky, NumDigits(n))

SRound(n, e) == Round(Sgn(n), AbsI(n), e, FALSE)

\* An integer (|n| < 2^31) as a Number.
Num(n) == SRound(n, 0)
\* A literal of the source: mantissa digits and decimal exponent.
Lit(m, e) == SRound(m, e)

fNeg(a) == IF IsNaN(a) THEN NaN ELSE F(-a.m, a.e)
fAbs(a) == IF IsNaN(a) THEN NaN ELSE F(AbsI(a.m), a.e)

\* n = 10*A + (the shifted b's digits above its last), g the last of them, st
\* whether digits were shifted out: one or two digits more than the format.
AddCarry(s, e, n, g, st) ==
    IF n >= MantMax THEN Round(s, n, e - 1, st \/ g # 0)
    ELSE Round(s, 10 * n + g, e - 2, st)

AddFar(s, A, e, bs, st) == AddCarry(s, e, 10 * A + (bs \div 10), bs % 10, st)

\* s*A*10^e + s*t*10^(e - sh - 2): t is shifted right by sh digits.
AddShifted(s, A, e, t, sh) ==
    AddFar(s, A, e,
           IF sh > 9 THEN (IF t < 0 THEN -1 ELSE 0) ELSE t \div 10^sh,
           IF sh > 9 THEN TRUE ELSE t % 10^sh # 0)

\* a + b for finite nonzero a, b with a.e - b.e = d >= 0.
AddAligned(a, b, d) ==
    IF d <= 1 THEN SRound(IF d = 0 THEN a.m + b.m ELSE a.m * 10 + b.m, b.e)
    ELSE AddShifted(Sgn(a.m), AbsI(a.m), a.e, Sgn(a.m) * b.m, d - 2)

AddOrdered(a, b) == AddAligned(a, b, a.e - b.e)

fAdd(a, b) ==
    IF IsNaN(a) \/ IsNaN(b) THEN NaN
    ELSE IF IsInf(a) THEN (IF IsInf(b) /\ a.m # b.m THEN NaN ELSE a)
    ELSE IF IsInf(b) THEN b
    ELSE IF a.m = 0 THEN b
    ELSE IF b.m = 0 THEN a
    ELSE AddOrdered(IF a.e >= b.e THEN a ELSE b, IF a.e >= b.e THEN b ELSE a)

fSub(a, b) == fAdd(a, fNeg(b))

\* The exact product of two mantissas as <<hi, lo>>: hi * 10^Digits + lo.
MulLow(hi, lo0) == <<hi + (lo0 \div MantMax), lo0 % MantMax>>
MulMid(hh, mid, ll) == MulLow(hh + (mid \div HalfBase), (mid % HalfBase) * HalfBase + ll)
MulParts(a1, a0, b1, b0) == MulMid(a1 * b1, a1 * b0 + a0 * b1, a0 * b0)
MulPair(A, B) == MulParts(A \div HalfBase, A % HalfBase, B \div HalfBase, B % HalfBase)

\* The product hi * 10^Digits + lo, of dh + Digits digits, cut to nine digits.
MulJoin(s, hi, lo, e, dh) ==
    IF hi = 0 THEN Round(s, lo, e, FALSE)
    ELSE Round(s, hi * 10^(9 - dh) + (lo \div 10^(dh - 1)), e + dh - 1,
               lo % 10^(dh - 1) # 0)

MulRound(s, p, e) == MulJoin(s, p[1], p[2], e, NumDigits(p[1]))

fMul(a, b) ==
    IF IsNaN(a) \/ IsNaN(b) THEN NaN
    ELSE IF IsInf(a) \/ IsInf(b)
    THEN (IF a.m = 0 \/ b.m = 0 THEN NaN
          ELSE IF Sgn(a.m) = Sgn(b.m) THEN PosInf ELSE NegInf)
    ELSE IF a.m = 0 \/ b.m = 0 THEN Zero
    ELSE MulRound(Sgn(a.m) * Sgn(b.m), MulPair(AbsI(a.m), AbsI(b.m)), a.e + b.e)

\* steps more digits of the quotient q of remainder r by B: <<q, r>>.
RECURSIVE LongDiv(_, _, _, _)
LongDiv(q, r, B, steps) ==
    IF steps = 0 THEN <<q, r>>
    ELSE LongDiv(q * 10 + ((r * 10) \div B), (r * 10) % B, B, steps - 1)

DivRound(s, qr, e) == Round(s, qr[1], e, qr[2] # 0)

\* A / B for mantissas of full width: nine digits of quotient and a remainder.
DivQuot(s, A, B, e) ==
    DivRound(s, LongDiv(A \div B, A % B, B, IF A >= B THEN 8 ELSE 9),
             e - (IF A >= B THEN 8 ELSE 9))

DivScaled(s, A, B, e, ua, ub) == DivQuot(s, A * 10^ua, B * 10^ub, e - ua + ub)

DivDigits(s, A, B, e) ==
    DivScaled(s, A, B, e, Digits - NumDigits(A), Digits - NumDigits(B))

fDiv(a, b) ==
    IF IsNaN(a) \/ IsNaN(b) THEN NaN
    ELSE IF IsInf(a)
    THEN (IF IsInf(b) THEN NaN
          ELSE IF Sgn(a.m) = Sgn(b.m) THEN PosInf ELSE NegInf)
    ELSE IF IsInf(b) THEN Zero
    ELSE IF b.m = 0
    THEN (IF a.m = 0 THEN NaN
          ELSE IF a.m > 0 THEN PosInf ELSE NegInf)
    ELSE IF a.m = 0 THEN Zero
    ELSE DivDigits(Sgn(a.m) * Sgn(b.m), AbsI(a.m), AbsI(b.m), a.e - b.e)

\* <<hi, lo>> < <<hi2, lo2>> as numbers hi * 10^Digits + lo.
PairLt(p, q) == p[1] < q[1] \/ (p[1] = q[1] /\ p[2] < q[2])

\* c*c - c as a pair, from the pair sq = c*c.
RootBelow(sq, c) ==
    IF sq[2] >= c THEN <<sq[1], sq[2] - c>> ELSE <<sq[1] - 1, sq[2] + MantMax - c>>

\* The largest c in lo..hi with c*c - c < T (T a pair): the root of T rounded
\* to nearest.
RECURSIVE RootSearch(_, _, _)
RECURSIVE RootProbe(_, _, _, _)
RootProbe(lo, hi, T, c) ==
    IF PairLt(RootBelow(MulPair(c, c), c), T) THEN RootSearch(c, hi, T)
    ELSE RootSearch(lo, c - 1, T)
RootSearch(lo, hi, T) ==
    IF lo >= hi THEN lo ELSE RootProbe(lo, hi, T, (lo + hi + 1) \div 2)

\* The root of A * 10^e, A of full width.
SqrtScaled(A, e) ==
    IF e % 2 = 0
    THEN Round(1, RootSearch(1, MantMax, <<A, 0>>), (e \div 2) - 4, FALSE)
    ELSE Round(1, RootSearch(1, MantMax, <<A \div 10, (A % 10) * MantMin>>),
               (e - 7) \div 2, FALSE)

SqrtDigits(m, e, u) == SqrtScaled(m * 10^u, e - u)

fSqrt(a) ==
    IF IsNaN(a) \/ a.m < 0 THEN NaN
    ELSE IF IsInf(a) \/ a.m = 0 THEN a
    ELSE SqrtDigits(a.m, a.e, Digits - NumDigits(a.m))

\* Comparisons are false when either side is NaN.
MagLt(a, b) ==
    b.m > 0 /\ (a.m = 0 \/ a.e < b.e \/ (a.e = b.e /\ a.m < b.m))

fLt(a, b) ==
    /\ ~IsNaN(a)
    /\ ~IsNaN(b)
    /\ IF a.m < 0
       THEN b.m >= 0 \/ MagLt(fNeg(b), fNeg(a))
       ELSE b.m > 0 /\ MagLt(a, b)

fEq(a, b) == ~IsNaN(a) /\ ~IsNaN(b) /\ a = b
fLe(a, b) == fLt(a, b) \/ fEq(a, b)
fGt(a, b) == fLt(b, a)
fGe(a, b) == fLe(b, a)

fMin(a, b) == IF IsNaN(a) \/ IsNaN(b) THEN NaN ELSE IF fLt(b, a) THEN b ELSE a

\* r * 10^steps mod B, for 0 <= r < B.
RECURSIVE ShiftMod(_, _, _)
ShiftMod(r, B, steps) ==
    IF steps = 0 \/ r = 0 THEN r ELSE ShiftMod((r * 10) % B, B, steps - 1)

\* |a| mod |b| with the sign s of a; d = b.e - a.e.
ModAligned(a, s, A, B, d, eb) ==
    IF d <= 0 THEN SRound(s * ShiftMod(A % B, B, -d), eb)
    ELSE IF NumDigits(B) + d > Digits THEN a
    ELSE SRound(s * (A % (B * 10^d)), a.e)

\* The % of JavaScript: exact, with the sign of the dividend.
fMod(a, b) ==
    IF IsNaN(a) \/ IsNaN(b) \/ IsInf(a) \/ b.m = 0 THEN NaN
    ELSE IF IsInf(b) \/ a.m = 0 THEN a
    ELSE ModAligned(a, Sgn(a.m), AbsI(a.m), AbsI(b.m), b.e - a.e, b.e)

\* The integer nearest to a finite Number below 10^9 in magnitude.
RoundInt(a) ==
    IF a.e >= 0 THEN a.m * 10^a.e
    ELSE IF a.e < -9 THEN 0
    ELSE (a.m + (10^(-a.e) \div 2)) \div 10^(-a.e)

\* ------------------------------------------------------- Math.PI, Math.sin, Math.cos
PI == F(31415927, -7)
Two == F(20000000, -7)
TwoPi == fMul(Two, PI)
TwoOverPi == F(63661977, -8)
PiHalfHi == F(15707000, -7)
PiHalfLo == F(96326795, -12)
ReduceLimit == F(10000000, -4)

\* The series of sin r / r - 1 and of cos r - 1 in z = r*r, without their
\* first power of z: -1/3!, 1/5!, ... and -1/2!, 1/4!, ...
SinCoefs == <<F(-16666667, -8), F(83333333, -10), F(-19841270, -11),
              F(27557319, -13), F(-25052108, -15)>>
CosCoefs == <<F(-50000000, -8), F(41666667, -9), F(-13888889, -10),
              F(24801587, -12), F(-27557319, -14)>>

\* c[i] + z*(c[i+1] + z*(...)).
RECURSIVE Horner(_, _, _)
Horner(c, z, i) ==
    IF i = Len(c) THEN c[i] ELSE fAdd(c[i], fMul(z, Horner(c, z, i + 1)))

\* r + r*z*(-1/3! + z*(1/5! + ...)), z = r*r, for |r| <= pi/4.
SinSeries(r, z) == fAdd(r, fMul(r, fMul(z, Horner(SinCoefs, z, 1))))
SinPoly(r) == SinSeries(r, fMul(r, r))

\* 1 + z*(-1/2! + z*(1/4! + ...)), z = r*r, for |r| <= pi/4.
CosSeries(z) == fAdd(One, fMul(z, Horner(CosCoefs, z, 1)))
CosPoly(r) == CosSeries(fMul(r, r))

\* The argument reduced by a multiple k of pi/2: <<k mod 4, r>>, x = k*pi/2 + r.
ReduceWith(x, k, kn) ==
    <<k % 4, fSub(fSub(x, fMul(kn, PiHalfHi)), fMul(kn, PiHalfLo))>>
ReduceBy(x, k) == ReduceWith(x, k, Num(k))
ReduceTurns(x) == ReduceBy(x, RoundInt(fMul(x, TwoOverPi)))
ReduceArg(x) ==
    ReduceTurns(IF fGt(fAbs(x), ReduceLimit) THEN fMod(x, TwoPi) ELSE x)

\* sin(q*pi/2 + r) for q in 0..3: sin r, cos r, -sin r, -cos r.
Negated(neg, v) == IF neg THEN fNeg(v) ELSE v
QuadrantSin(q, r) == Negated(q >= 2, IF q % 2 = 0 THEN SinPoly(r) ELSE CosPoly(r))

ReducedSin(kr, quarter) == QuadrantSin((kr[1] + quarter) % 4, kr[2])

fSin(x) == IF ~IsFinite(x) THEN NaN ELSE ReducedSin(ReduceArg(x), 0)
fCos(x) == IF ~IsFinite(x) THEN NaN ELSE ReducedSin(ReduceArg(x), 1)

\* ------------------------------------------------------------ planets.js
AU_KM == F(14960000, 1)
SOLAR_MASS == F(19890000, 23)
GM_SUN_AU3_DAY2 == F(29591000, -11)

SUN == [name |-> "Sun", mass |-> SOLAR_MASS, GM_AU3_day2 |-> GM_SUN_AU3_DAY2]

\* The elements, each literal rounded to the format as a literal of the source
\* is rounded to a Number.
PLANETS == <<
    [name |-> "Mercury", mass |-> F(33010000, 16),
     elements |->
        [a |-> F(38709927, -8), aRate |-> F(37000000, -14),
         e |-> F(20563593, -8), eRate |-> F(19060000, -12),
         I |-> F(70049790, -7), IRate |-> F(-59474900, -10),
         L |-> F(25225032, -5), LRate |-> F(14947267, -2),
         wBar |-> F(77457796, -6), wBarRate |-> F(16047689, -8),
         Omega |-> F(48330766, -6), OmegaRate |-> F(-12534081, -8)]],
    [name |-> "Venus", mass |-> F(48670000, 17),
     elements |->
        [a |-> F(72333566, -8), aRate |-> F(39000000, -13),
         e |-> F(67767200, -10), eRate |-> F(-41070000, -12),
         I |-> F(33946760, -7), IRate |-> F(-78890000, -11),
         L |-> F(18197910, -5), LRate |-> F(58517815, -3),
         wBar |-> F(13160247, -5), wBarRate |-> F(26832900, -10),
         Omega |-> F(76679843, -6), OmegaRate |-> F(-27769418, -8)]],
    [name |-> "Earth", mass |-> F(59720000, 17),
     elements |->
        [a |-> F(10000026, -7), aRate |-> F(56200000, -13),
         e |-> F(16711230, -9), eRate |-> F(-43920000, -12),
         I |-> F(-15310000, -12), IRate |-> F(-12946680, -9),
         L |-> F(10046457, -5), LRate |-> F(35999372, -3),
         wBar |-> F(10293768, -5), wBarRate |-> F(32327364, -8),
         Omega |-> Zero, OmegaRate |-> Zero]],
    [name |-> "Mars", mass |-> F(64170000, 16),
     elements |->
        [a |-> F(15237103, -7), aRate |-> F(18470000, -12),
         e |-> F(93394100, -9), eRate |-> F(78820000, -12),
         I |-> F(18496914, -7), IRate |-> F(-81313100, -10),
         L |-> F(-45534320, -7), LRate |-> F(19140303, -3),
         wBar |-> F(-23943630, -6), wBarRate |-> F(44441088, -8),
         Omega |-> F(49559539, -6), OmegaRate |-> F(-29257343, -8)]],
    [name |-> "Jupiter", mass |-> F(18980000, 20),
     elements |->
        [a |-> F(52028870, -7), aRate |-> F(-11607000, -11),
         e |-> F(48386240, -9), eRate |-> F(-13253000, -11),
         I |-> F(13043970, -7), IRate |-> F(-18371400, -10),
         L |-> F(34396441, -6), LRate |-> F(30347461, -4),
         wBar |-> F(14728480, -6), wBarRate |-> F(21252668, -8),
         Omega |-> F(10047391, -5), OmegaRate |-> F(20469106, -8)]],
    [name |-> "Saturn", mass |-> F(56830000, 19),
     elements |->
        [a |-> F(95366759, -7), aRate |-> F(-12506000, -10),
         e |-> F(53861790, -9), eRate |-> F(-50991000, -11),
         I |-> F(24859919, -7), IRate |-> F(19360900, -10),
         L |-> F(49954244, -6), LRate |-> F(12224936, -4),
         wBar |-> F(92598878, -6), wBarRate |-> F(-41897216, -8),
         Omega |-> F(11366242, -5), OmegaRate |-> F(-28867794, -8)]],
    [name |-> "Uranus", mass |-> F(86810000, 18),
     elements |->
        [a |-> F(19189165, -6), aRate |-> F(-19617600, -10),
         e |-> F(47257440, -9), eRate |-> F(-43970000, -12),
         I |-> F(77263783, -8), IRate |-> F(-24293900, -10),
         L |-> F(31323810, -5), LRate |-> F(42848203, -5),
         wBar |-> F(17095428, -5), wBarRate |-> F(40805281, -8),
         Omega |-> F(74016925, -6), OmegaRate |-> F(42405890, -9)]],
    [name |-> "Neptune", mass |-> F(10240000, 19),
     elements |->
        [a |-> F(30069923, -6), aRate |-> F(26291000, -11),
         e |-> F(85904800, -10), eRate |-> F(51050000, -12),
         I |-> F(17700435, -7), IRate |-> F(35372000, -11),
         L |-> F(-55120030, -6), LRate |-> F(21845945, -5),
         wBar |-> F(44964762, -6), wBarRate |-> F(-32241464, -8),
         Omega |-> F(13178423, -5), OmegaRate |-> F(-50866400, -10)]],
    [name |-> "Pluto", mass |-> F(13030000, 15),
     elements |->
        [a |-> F(39482117, -6), aRate |-> F(-31596000, -11),
         e |-> F(24882730, -8), eRate |-> F(51700000, -12),
         I |-> F(17140012, -6), IRate |-> F(48180000, -12),
         L |-> F(23892904, -5), LRate |-> F(14520781, -5),
         wBar |-> F(22406892, -5), wBarRate |-> F(-40629420, -9),
         Omega |-> F(11030394, -5), OmegaRate |-> F(-11834820, -9)]]>>

\* p.GM_AU3_day2 = GM_SUN_AU3_DAY2 * (p.mass / SOLAR_MASS);
PlanetGM(p) == fMul(GM_SUN_AU3_DAY2, fDiv(p.mass, SOLAR_MASS))

\* -------------------------------------------------------------- orbits.js
\* A Date is its time value: whole milliseconds, counted here from 00:00 UTC
\* of day StartDay after the epoch of Date; the page is opened StartMs into
\* that day.
StartDay == 20000
StartMs == 4233600
MsPerDay == 86400000
Thousand == F(10000000, -4)

DEG2RAD == fDiv(PI, F(18000000, -5))

\* date.getTime() / 86400000: the quotient of two whole numbers, rounded once.
DaysRound(qr, k) == Round(1, qr[1], -k, qr[2] # 0)
DaysQuot(days, rest) ==
    DaysRound(LongDiv(days, rest, MsPerDay, 9 - NumDigits(days)), 9 - NumDigits(days))
DateDays(date) == DaysQuot(StartDay + (date \div MsPerDay), date % MsPerDay)

julianDate(date) == fAdd(DateDays(date), F(24405875, -1))

centuriesSinceJ2000(jd) == fDiv(fSub(jd, F(24515450, -1)), F(36525000, -3))

MaxIter == 50
Tolerance == F(10000000, -15)

\* Variant: M taken as it comes, without the reduction of lines 25-26.
NormalizeMNot(M) == M

\* M = M % (2 * Math.PI); if (M < 0) M += 2 * Math.PI;
WrapNegative(M) == IF fLt(M, Zero) THEN fAdd(M, TwoPi) ELSE M
NormalizeM(M) == WrapNegative(fMod(M, TwoPi))

\* let E = M + e * Math.sin(M);
InitialGuess(M, e) == fAdd(M, fMul(e, fSin(M)))

\* const dE = (E - e sin E - M) / (1 - e cos E); E -= dE;
StepBy(E, dE) == [E |-> fSub(E, dE), dE |-> dE]
\* Variant: the derivative with its sign slipped, 1 + e cos E.
NewtonStepSlip(M, e, E) ==
    StepBy(E, fDiv(fSub(fSub(E, fMul(e, fSin(E))), M),
                   fAdd(One, fMul(e, fCos(E)))))
NewtonStep(M, e, E) ==
    StepBy(E, fDiv(fSub(fSub(E, fMul(e, fSin(E))), M),
                   fSub(One, fMul(e, fCos(E)))))

\* Variant: a test that no dE passes, so that only the cap ends the loop.
ConvergedNever(dE) == fLt(fAbs(dE), Zero)

\* if (Math.abs(dE) < tolerance) break;
Converged(dE) == fLt(fAbs(dE), Tolerance)

\* for (let i = 0; i < 50; i++) { ... }  return E;
RECURSIVE KeplerLoop(_, _, _, _)
RECURSIVE KeplerBody(_, _, _, _)
KeplerBody(M, e, s, i) ==
    IF Converged(s.dE) THEN s.E ELSE KeplerLoop(M, e, s.E, i + 1)
KeplerLoop(M, e, E, i) ==
    IF i >= MaxIter THEN E ELSE KeplerBody(M, e, NewtonStep(M, e, E), i)

KeplerFrom(M, e) == KeplerLoop(M, e, InitialGuess(M, e), 0)
solveKepler(M, e) == KeplerFrom(NormalizeM(M), e)

\* elements.x + elements.xRate * T, and the same in radians.
Current(x, rate, T) == fAdd(x, fMul(rate, T))
CurrentRad(x, rate, T) == fMul(Current(x, rate, T), DEG2RAD)

\* The current elements of lines 46-51 (89-93 in computeOrbitPath).
ElementsAt(el, T) ==
    [a |-> Current(el.a, el.aRate, T),
     e |-> Current(el.e, el.eRate, T),
     I |-> CurrentRad(el.I, el.IRate, T),
     L |-> CurrentRad(el.L, el.LRate, T),
     wBar |-> CurrentRad(el.wBar, el.wBarRate, T),
     Omega |-> CurrentRad(el.Omega, el.OmegaRate, T)]

\* cosOmega ... sinW of lines 65-70 (96-101), omega = wBar - Omega.
SinCos(x) == [sin |-> fSin(x), cos |-> fCos(x)]
Angles(c) ==
    [Omega |-> SinCos(c.Omega), I |-> SinCos(c.I), W |-> SinCos(fSub(c.wBar, c.Omega))]

\* xPrime and yPrime of lines 61-62 (106-107).
OrbitalPlane(c, E) ==
    [xPrime |-> fMul(c.a, fSub(fCos(E), c.e)),
     yPrime |-> fMul(fMul(c.a, fSqrt(fSub(One, fMul(c.e, c.e)))), fSin(E))]

\* Lines 72-76 (109-113), operation by operation.
Ecliptic(t, p) ==
    [x |-> fAdd(fMul(fSub(fMul(t.Omega.cos, t.W.cos),
                          fMul(fMul(t.Omega.sin, t.W.sin), t.I.cos)), p.xPrime),
                fMul(fSub(fMul(fNeg(t.Omega.cos), t.W.sin),
                          fMul(fMul(t.Omega.sin, t.W.cos), t.I.cos)), p.yPrime)),
     y |-> fAdd(fMul(fAdd(fMul(t.Omega.sin, t.W.cos),
                          fMul(fMul(t.Omega.cos, t.W.sin), t.I.cos)), p.xPrime),
                fMul(fAdd(fMul(fNeg(t.Omega.sin), t.W.sin),
                          fMul(fMul(t.Omega.cos, t.W.cos), t.I.cos)), p.yPrime)),
     z |-> fAdd(fMul(fMul(t.W.sin, t.I.sin), p.xPrime),
                fMul(fMul(t.W.cos, t.I.sin), p.yPrime))]

PositionOf(c, E) == Ecliptic(Angles(c), OrbitalPlane(c, E))
PositionAt(c) == PositionOf(c, solveKepler(fSub(c.L, c.wBar), c.e))

computePosition(elements, date) ==
    PositionAt(ElementsAt(elements, centuriesSinceJ2000(julianDate(date))))

\* const E = (2 * Math.PI * i) / segments;
SweepAngle(i, segments) == fDiv(fMul(TwoPi, Num(i)), Num(segments))

\* One point of the path, from the elements c and angles t fixed at the call.
PathPoint(c, t, i, segments) == Ecliptic(t, OrbitalPlane(c, SweepAngle(i, segments)))

\* ---------------------------------------------------------- spacecraft.js
DAY_TO_S == F(86400000, -3)
THRUST_ACCEL == F(50000000, -11)
ROTATION_SPEED == Two
SkipBelow == F(10000000, -17)

Vec(x, y, z) == [x |-> x, y |-> y, z |-> z]
Origin == Vec(Zero, Zero, Zero)

\* dx, dy, dz, r2 and r of lines 78-82 (211-215, 183-186).
WithDistance(dx, dy, dz, r2) == [dx |-> dx, dy |-> dy, dz |-> dz, r2 |-> r2, r |-> fSqrt(r2)]
Offsets(dx, dy, dz) ==
    WithDistance(dx, dy, dz, fAdd(fAdd(fMul(dx, dx), fMul(dy, dy)), fMul(dz, dz)))
Separation(pos, body) ==
    Offsets(fSub(body.positionAU.x, pos.x), fSub(body.positionAU.y, pos.y),
            fSub(body.positionAU.z, pos.z))

\* Variant: no body is skipped.
TooCloseNever(r) == fLt(r, Zero)

\* if (r < 1e-10) continue;
TooClose(r) == fLt(r, SkipBelow)

\* ax += aMag * (dx / r); ... with aMag = gm / r2.
Pull(acc, aMag, d) ==
    [ax |-> fAdd(acc.ax, fMul(aMag, fDiv(d.dx, d.r))),
     ay |-> fAdd(acc.ay, fMul(aMag, fDiv(d.dy, d.r))),
     az |-> fAdd(acc.az, fMul(aMag, fDiv(d.dz, d.r)))]

\* One pass of the loop body of lines 76-91.
Attract(acc, gm, d) == IF TooClose(d.r) THEN acc ELSE Pull(acc, fDiv(gm, d.r2), d)

RECURSIVE GravityLoop(_, _, _, _)
GravityLoop(pos, bodies, i, acc) ==
    IF i > Len(bodies) THEN acc
    ELSE GravityLoop(pos, bodies, i + 1,
                     Attract(acc, bodies[i].GM_AU3_day2, Separation(pos, bodies[i])))

computeGravity(pos, bodies) ==
    GravityLoop(pos, bodies, 1, [ax |-> Zero, ay |-> Zero, az |-> Zero])

\* three.js Quaternion.setFromAxisAngle for the unit axis x, y or z.
HalfAngle(axis, s, c) ==
    [x |-> IF axis = "x" THEN s ELSE Zero,
     y |-> IF axis = "y" THEN s ELSE Zero,
     z |-> IF axis = "z" THEN s ELSE Zero,
     w |-> c]
AxisAngle(axis, half) == HalfAngle(axis, fSin(half), fCos(half))

\* three.js Quaternion.multiply: a * b.
QuatMultiply(a, b) ==
    [x |-> fSub(fAdd(fAdd(fMul(a.x, b.w), fMul(a.w, b.x)), fMul(a.y, b.z)), fMul(a.z, b.y)),
     y |-> fSub(fAdd(fAdd(fMul(a.y, b.w), fMul(a.w, b.y)), fMul(a.z, b.x)), fMul(a.x, b.z)),
     z |-> fSub(fAdd(fAdd(fMul(a.z, b.w), fMul(a.w, b.z)), fMul(a.x, b.y)), fMul(a.y, b.x)),
     w |-> fSub(fSub(fSub(fMul(a.w, b.w), fMul(a.x, b.x)), fMul(a.y, b.y)), fMul(a.z, b.z))]

\* mesh.rotateX / rotateY / rotateZ (Object3D.rotateOnAxis).
RotateOn(q, axis, angle) == QuatMultiply(q, AxisAngle(axis, fDiv(angle, Two)))

\* Variant: the turn scaled by the simulated step.
RotAmountSimTime(dtSim, dtReal) == fMul(ROTATION_SPEED, dtSim)

\* const rotAmount = spacecraft.rotationSpeed * dtReal, in
\* updateSpacecraft(spacecraft, bodies, dtSim, dtReal).
RotAmount(dtSim, dtReal) == fMul(ROTATION_SPEED, dtReal)

\* Lines 108-113 in their order: the keys of a turn, its axis and its sign.
Turns ==
    <<[keys |-> {"KeyA"}, axis |-> "y", sign |-> 1],
      [keys |-> {"KeyD"}, axis |-> "y", sign |-> -1],
      [keys |-> {"Space"}, axis |-> "x", sign |-> 1],
      [keys |-> {"ShiftLeft", "ShiftRight"}, axis |-> "x", sign |-> -1],
      [keys |-> {"KeyQ"}, axis |-> "z", sign |-> 1],
      [keys |-> {"KeyE"}, axis |-> "z", sign |-> -1]>>

Turned(q, turn, held, rotAmount) ==
    IF turn.keys \cap held = {} THEN q
    ELSE RotateOn(q, turn.axis, IF turn.sign > 0 THEN rotAmount ELSE fNeg(rotAmount))

RECURSIVE Steer(_, _, _, _)
Steer(q, held, rotAmount, i) ==
    IF i > Len(Turns) THEN q
    ELSE Steer(Turned(q, Turns[i], held, rotAmount), held, rotAmount, i + 1)

\* three.js Vector3.applyQuaternion for v = (0, 0, -1).
CrossTwice(q, vx, vy, vz) ==
    [x |-> fMul(Two, fSub(fMul(q.y, vz), fMul(q.z, vy))),
     y |-> fMul(Two, fSub(fMul(q.z, vx), fMul(q.x, vz))),
     z |-> fMul(Two, fSub(fMul(q.x, vy), fMul(q.y, vx)))]
ApplyCross(q, vx, vy, vz, t) ==
    Vec(fSub(fAdd(fAdd(vx, fMul(q.w, t.x)), fMul(q.y, t.z)), fMul(q.z, t.y)),
        fSub(fAdd(fAdd(vy, fMul(q.w, t.y)), fMul(q.z, t.x)), fMul(q.x, t.z)),
        fSub(fAdd(fAdd(vz, fMul(q.w, t.z)), fMul(q.x, t.y)), fMul(q.y, t.x)))
ApplyQuaternion(q, vx, vy, vz) == ApplyCross(q, vx, vy, vz, CrossTwice(q, vx, vy, vz))
Forward(q) == ApplyQuaternion(q, Zero, Zero, fNeg(One))

\* const thrustAU = spacecraft.thrustAccel * dtSim * sign;
ThrustAU(dtSim, forwardKey) ==
    fMul(fMul(THRUST_ACCEL, dtSim), IF forwardKey THEN One ELSE fNeg(One))

\* Lines 134-136: scene x -> AU x, scene y -> AU z, scene z -> -AU y.
ThrustDelta(forward, thrustAU) ==
    Vec(fMul(forward.x, thrustAU), fMul(fNeg(forward.z), thrustAU),
        fMul(forward.y, thrustAU))

VecAdd(a, b) == Vec(fAdd(a.x, b.x), fAdd(a.y, b.y), fAdd(a.z, b.z))

\* Variant: the sign taken from the backward key.
ThrustBackwardWins(velocity, q, held, dtSim) ==
    IF "KeyW" \in held \/ "KeyS" \in held
    THEN VecAdd(velocity, ThrustDelta(Forward(q), ThrustAU(dtSim, "KeyS" \notin held)))
    ELSE velocity

\* Lines 116-137: the velocity after the thrust of this frame.
Thrust(velocity, q, held, dtSim) ==
    IF "KeyW" \in held \/ "KeyS" \in held
    THEN VecAdd(velocity, ThrustDelta(Forward(q), ThrustAU(dtSim, "KeyW" \in held)))
    ELSE velocity

\* Lines 141-143.
Accelerate(velocity, grav, dtSim) ==
    Vec(fAdd(velocity.x, fMul(grav.ax, dtSim)), fAdd(velocity.y, fMul(grav.ay, dtSim)),
        fAdd(velocity.z, fMul(grav.az, dtSim)))

\* Variant: the position moved by half the velocity, the midpoint step of a
\* craft that started the step at rest.
AdvanceMidpoint(position, velocity, dtSim) ==
    Vec(fAdd(position.x, fMul(fMul(velocity.x, F(50000000, -8)), dtSim)),
        fAdd(position.y, fMul(fMul(velocity.y, F(50000000, -8)), dtSim)),
        fAdd(position.z, fMul(fMul(velocity.z, F(50000000, -8)), dtSim)))

\* Lines 146-148.
Advance(position, velocity, dtSim) ==
    Vec(fAdd(position.x, fMul(velocity.x, dtSim)),
        fAdd(position.y, fMul(velocity.y, dtSim)),
        fAdd(position.z, fMul(velocity.z, dtSim)))

\* Math.sqrt(x*x + y*y + z*z).
Norm(x, y, z) == fSqrt(fAdd(fAdd(fMul(x, x), fMul(y, y)), fMul(z, z)))

getSpeedKmS(velocity) ==
    fDiv(fMul(Norm(velocity.x, velocity.y, velocity.z), AU_KM), DAY_TO_S)

GravityNorm(g) == Norm(g.ax, g.ay, g.az)
getGravityMagnitude(pos, bodies) ==
    fDiv(fMul(fMul(GravityNorm(computeGravity(pos, bodies)), AU_KM), Thousand),
         fMul(DAY_TO_S, DAY_TO_S))

\* Lines 219-227: one row of the table.
Row(name, d, gm) ==
    [name |-> name, distanceAU |-> d.r, distanceKm |-> fMul(d.r, AU_KM),
     gravityMs2 |-> fDiv(fMul(fDiv(gm, d.r2), fMul(AU_KM, Thousand)),
                         fMul(DAY_TO_S, DAY_TO_S))]

Listed(results, body, d) ==
    IF TooClose(d.r) THEN results
    ELSE Append(results, Row(body.name, d, body.GM_AU3_day2))

RECURSIVE Rows(_, _, _, _)
Rows(pos, bodies, i, results) ==
    IF i > Len(bodies) THEN results
    ELSE Rows(pos, bodies, i + 1, Listed(results, bodies[i], Separation(pos, bodies[i])))

\* (a, b) => b.gravityMs2 - a.gravityMs2: negative puts a first, positive b
\* first, and zero or NaN leaves the two as they are.
Compare(a, b) == fSub(b.gravityMs2, a.gravityMs2)
\* Variant: the comparator turned round, a.gravityMs2 - b.gravityMs2.
AfterAscending(a, b) == fLt(Compare(a, b), Zero)
After(a, b) == fGt(Compare(a, b), Zero)

\* Array.prototype.sort: a stable sort by the comparator.  Insert(sorted, x)
\* places x behind every element that is not to come after it.
RECURSIVE InsertAt(_, _, _)
InsertAt(sorted, x, i) ==
    IF i > Len(sorted) THEN Append(sorted, x)
    ELSE IF After(sorted[i], x)
    THEN SubSeq(sorted, 1, i - 1) \o <<x>> \o SubSeq(sorted, i, Len(sorted))
    ELSE InsertAt(sorted, x, i + 1)

RECURSIVE SortFrom(_, _, _)
SortFrom(results, i, sorted) ==
    IF i > Len(results) THEN sorted
    ELSE SortFrom(results, i + 1, InsertAt(sorted, results[i], 1))

Sort(results) == SortFrom(results, 1, <<>>)

getPerBodyGravity(pos, bodies) == Sort(Rows(pos, bodies, 1, <<>>))

\* Lines 182-197: the nearest body, the first of them at equal distance.
Nearer(best, body, d) ==
    IF fLt(d.r, best.distanceAU)
    THEN [name |-> body.name, distanceAU |-> d.r, distanceKm |-> fMul(d.r, AU_KM)]
    ELSE best

RECURSIVE NearestLoop(_, _, _, _)
NearestLoop(pos, bodies, i, best) ==
    IF i > Len(bodies) THEN best
    ELSE NearestLoop(pos, bodies, i + 1, Nearer(best, bodies[i], Separation(pos, bodies[i])))

findNearestBody(pos, bodies) ==
    NearestLoop(pos, bodies, 1,
                [name |-> "-", distanceAU |-> PosInf, distanceKm |-> PosInf])

\* ---------------------------------------------------------------- hud.js
\* The values updateHUD writes to the page: lines 26-28 and 50.
updateHUD(pos, velocity, bodies, timeWarp) ==
    [speed |-> getSpeedKmS(velocity),
     totalGrav |-> getGravityMagnitude(pos, bodies),
     perBody |-> getPerBodyGravity(pos, bodies),
     timeWarp |-> timeWarp]

\* ------------------------------------------------------------- bodies.js
NumPlanets == 3

Planet(p) ==
    [name |-> p.name, GM_AU3_day2 |-> PlanetGM(p), elements |-> p.elements,
     positionAU |-> Origin]

\* The Sun at the origin, then the planets in their order, at the origin too
\* until the first updateBodies.
PlanetBodies(planets) == [i \in 1..NumPlanets |-> Planet(planets[i])]
createBodies ==
    <<[name |-> SUN.name, GM_AU3_day2 |-> SUN.GM_AU3_day2, positionAU |-> Origin]>>
        \o PlanetBodies(PLANETS)

\* Variant: the loop begins one body late.
updateBodiesFromTwo(bodies, date) ==
    [i \in 1..Len(bodies) |->
        IF i <= 2 THEN bodies[i]
        ELSE [bodies[i] EXCEPT !.positionAU = computePosition(bodies[i].elements, date)]]

\* for (let i = 1; i < bodies.length; i++) body.positionAU = computePosition(...)
updateBodies(bodies, date) ==
    [i \in 1..Len(bodies) |->
        IF i = 1 THEN bodies[i]
        ELSE [bodies[i] EXCEPT !.positionAU = computePosition(bodies[i].elements, date)]]

\* --------------------------------------------------------------- main.js
\* Variant: the table with an entry for a stopped clock put before the others.
WarpValuesWithPause ==
    <<Zero, One, F(10000000, -6), F(10000000, -5), F(10000000, -4), F(10000000, -3),
      F(10000000, -2), F(10000000, -1)>>

\* const TIME_WARP_VALUES = [1, 10, 100, 1000, 10000, 100000, 1e6, 1e7];
TIME_WARP_VALUES ==
    <<One, F(10000000, -6), F(10000000, -5), F(10000000, -4), F(10000000, -3),
      F(10000000, -2), F(10000000, -1), F(10000000, 0)>>
MaxDelta == F(10000000, -8)
HudPeriod == F(10000000, -8)
OrbitRate == F(10000000, -8)

\* The whole number below a finite Number under 10^9 in magnitude.
FloorInt(a) ==
    IF a.e >= 0 THEN a.m * 10^a.e
    ELSE IF a.e < -9 THEN (IF a.m < 0 THEN -1 ELSE 0)
    ELSE a.m \div 10^(-a.e)

\* Variant: the delta without its cap.
FrameDeltaUncapped(now, last) == fDiv(fSub(now, last), Thousand)

\* const dtReal = Math.min((now - lastTime) / 1000, 0.1);
FrameDelta(now, last) == fMin(fDiv(fSub(now, last), Thousand), MaxDelta)

\* const dtSimDays = (dtReal / 86400) * timeWarp;
SimDays(dtReal, timeWarp) == fMul(fDiv(dtReal, DAY_TO_S), timeWarp)

\* simDate = new Date(simDate.getTime() + dtReal * 1000 * timeWarp): the time
\* value of a Date is a whole number of milliseconds, the sum cut to it.  The
\* time value is far above the step, so the cut is downward.
AdvanceDate(date, dtReal, timeWarp) ==
    date + FloorInt(fMul(fMul(dtReal, Thousand), timeWarp))

\* Variant: updateSpacecraft called before updateBodies.
StageAfterShipFirst(stage) ==
    CASE stage = "animate" -> "steer"
      [] stage = "steer" -> "gravity"
      [] stage = "gravity" -> "integrate"
      [] stage = "integrate" -> "updateBodies"
      [] stage = "updateBodies" -> "present"
      [] stage = "present" -> "idle"

\* Variant: the position integrated before gravity is computed.
StageAfterPositionFirst(stage) ==
    CASE stage = "animate" -> "updateBodies"
      [] stage = "updateBodies" -> "steer"
      [] stage = "steer" -> "integrate"
      [] stage = "integrate" -> "gravity"
      [] stage = "gravity" -> "present"
      [] stage = "present" -> "idle"

\* The statements of animate and of updateSpacecraft in their order: each
\* runs to its end before the next begins, and no handler runs in between.
StageAfter(stage) ==
    CASE stage = "animate" -> "updateBodies"
      [] stage = "updateBodies" -> "steer"
      [] stage = "steer" -> "gravity"
      [] stage = "gravity" -> "integrate"
      [] stage = "integrate" -> "present"
      [] stage = "present" -> "idle"

\* ------------------------------------------------------------------ State
VARIABLES
    \* main.js
    pc,             \* where animate stands: "idle" between frames, else the stage to run
    ticks,          \* frames begun
    inputs,         \* input events handled
    lastTime,       \* lastTime, milliseconds
    hudTimer,       \* hudTimer
    timeWarpIndex,  \* timeWarpIndex
    simDate,        \* simDate (its time value)
    prevDate,       \* simDate as the frame under way found it
    cameraMode,     \* cameraMode
    orbitAngle,     \* orbitAngle
    dtReal,         \* dtReal of the frame under way
    dtSimDays,      \* dtSimDays of the frame under way
    \* spacecraft.js
    positionAU,     \* spacecraft.positionAU
    velocityAU,     \* spacecraft.velocityAU
    quaternion,     \* spacecraft.mesh.quaternion
    thrusting,      \* spacecraft.thrusting
    keys,           \* the codes c with spacecraft.keys[c] true
    grav,           \* grav of the updateSpacecraft under way
    entry,          \* position, velocity and attitude as that updateSpacecraft found them
    \* bodies.js
    bodies,         \* bodies
    \* hud.js
    hud,            \* what updateHUD last wrote
    nearest,        \* what findNearestBody last returned
    \* solveKepler, one call followed step by step (orbits.js)
    kBase,          \* the caller's mean anomaly before it adds whole turns
    kTurns,         \* the whole turns k the caller adds: the argument is kBase + 2*pi*k
    kM,             \* the argument M
    kEcc,           \* the argument e
    kMn,            \* M after lines 25-26
    kE,             \* E
    kdE,            \* dE of the last iteration
    kIter,          \* iterations completed
    kRet,           \* the value returned
    kpc,            \* "call", "loop", "ret"; "off" outside its specification
    \* computeOrbitPath, one call followed step by step (orbits.js)
    wall,           \* the clock new Date() reads (a time value)
    oElements,      \* the argument elements
    oSegments,      \* the argument segments
    oCalled,        \* the clock when the call began
    oCurrent,       \* a, e, I, wBar, Omega of lines 89-93
    oAngles,        \* cosOmega ... sinW of lines 96-101
    oI,             \* i
    oPoints,        \* points
    opc             \* "call", "loop", "ret"; "off" outside its specification

gvars == <<pc, ticks, inputs, lastTime, hudTimer, timeWarpIndex, simDate, prevDate,
           cameraMode, orbitAngle, dtReal, dtSimDays>>
svars == <<positionAU, velocityAU, quaternion, thrusting, keys, grav, entry>>
kvars == <<kBase, kTurns, kM, kEcc, kMn, kE, kdE, kIter, kRet, kpc>>
ovars == <<wall, oElements, oSegments, oCalled, oCurrent, oAngles, oI, oPoints, opc>>
hvars == <<hud, nearest>>
vars == <<gvars, svars, bodies, hvars, kvars, ovars>>

Identity == [x |-> Zero, y |-> Zero, z |-> Zero, w |-> One]
NoGravity == [ax |-> Zero, ay |-> Zero, az |-> Zero]
NoBody == [name |-> "-", distanceAU |-> PosInf, distanceKm |-> PosInf]
NoHud == [speed |-> Zero, totalGrav |-> Zero, perBody |-> <<>>, timeWarp |-> 0]

\* The page as loaded: main.js 11-33 and 75-76, createSpacecraft 36-55.
GameStart ==
    /\ pc = "idle" /\ ticks = 0 /\ inputs = 0
    /\ lastTime = F(25000000, -5)
    /\ hudTimer = Zero
    /\ timeWarpIndex = 0
    /\ simDate = StartMs /\ prevDate = StartMs
    /\ cameraMode = 0 /\ orbitAngle = Zero
    /\ dtReal = Zero /\ dtSimDays = Zero

ShipStart ==
    /\ positionAU = Vec(F(10500000, -7), Zero, F(10000000, -9))
    /\ velocityAU = Vec(Zero, F(17200000, -9), Zero)
    /\ quaternion = Identity
    /\ thrusting = FALSE
    /\ keys = {}
    /\ grav = NoGravity
    /\ entry = [positionAU |-> Vec(F(10500000, -7), Zero, F(10000000, -9)),
                velocityAU |-> Vec(Zero, F(17200000, -9), Zero),
                quaternion |-> Identity]

KeplerOff ==
    /\ kBase = Zero /\ kTurns = 0 /\ kM = Zero /\ kEcc = Zero /\ kMn = Zero
    /\ kE = Zero /\ kdE = Zero /\ kIter = 0 /\ kRet = Zero /\ kpc = "off"

\* The game at rest, for the specifications that follow one call alone.
GameOff ==
    /\ pc = "off" /\ ticks = 0 /\ inputs = 0
    /\ lastTime = Zero /\ hudTimer = Zero /\ timeWarpIndex = 0
    /\ simDate = 0 /\ prevDate = 0 /\ cameraMode = 0 /\ orbitAngle = Zero
    /\ dtReal = Zero /\ dtSimDays = Zero
    /\ ShipStart
    /\ bodies = <<>>
    /\ hud = NoHud /\ nearest = NoBody

PathOff ==
    /\ wall = 0 /\ oElements = 0 /\ oSegments = 0 /\ oCalled = 0
    /\ oCurrent = Zero /\ oAngles = Zero /\ oI = 0 /\ oPoints = <<>> /\ opc = "off"

\* ------------------------------------------------- main.js: the handlers
MaxTicks == 2
MaxInputs == 2
\* The frames followed begin no later than this long after the page opened, ms.
MaxElapsed == 1100000000

Codes == {"KeyW", "KeyS", "KeyA", "KeyD", "Space", "ShiftLeft", "ShiftRight",
          "KeyQ", "KeyE", "KeyC"}

\* The time from one frame to the next, milliseconds: a frame of a 60 Hz
\* display and a stall of five seconds.
Gaps == {F(16700000, -6), F(50000000, -4)}

\* The first frame's timestamp is the time its frame began, lastTime the time
\* performance.now() gave while the script ran: the timestamp may be the
\* earlier of the two, here by 4 ms.  From the second frame on both are frame
\* timestamps, which do not decrease.
FirstGaps == Gaps \cup {F(-40000000, -7)}

\* keydown: spacecraft.keys[e.code] = true, and KeyC changes the camera mode.
KeyDown ==
    /\ pc = "idle" /\ inputs < MaxInputs
    /\ \E code \in Codes :
          /\ keys' = keys \cup {code}
          /\ cameraMode' = IF code = "KeyC" THEN (cameraMode + 1) % 2 ELSE cameraMode
    /\ inputs' = inputs + 1
    /\ UNCHANGED <<pc, ticks, lastTime, hudTimer, timeWarpIndex, simDate, prevDate,
                   orbitAngle, dtReal, dtSimDays>>
    /\ UNCHANGED <<positionAU, velocityAU, quaternion, thrusting, grav, entry>>
    /\ UNCHANGED <<bodies, hvars, kvars, ovars>>

\* keyup: spacecraft.keys[e.code] = false.
KeyUp ==
    /\ pc = "idle" /\ inputs < MaxInputs
    /\ \E code \in Codes : keys' = keys \ {code}
    /\ inputs' = inputs + 1
    /\ UNCHANGED <<pc, ticks, lastTime, hudTimer, timeWarpIndex, simDate, prevDate,
                   cameraMode, orbitAngle, dtReal, dtSimDays>>
    /\ UNCHANGED <<positionAU, velocityAU, quaternion, thrusting, grav, entry>>
    /\ UNCHANGED <<bodies, hvars, kvars, ovars>>

\* The values the time-warp slider can hold, as the strings its value property
\* gives: one position for each multiplier of the enumerated set.
SliderValues ==
    {<<"0">>, <<"1">>, <<"2">>, <<"3">>, <<"4">>, <<"5">>, <<"6">>, <<"7">>}

DecimalDigits == <<"0", "1", "2", "3", "4", "5", "6", "7", "8", "9">>

\* The digits s begins with, read in base ten onto acc.
RECURSIVE ParseDigits(_, _)
ParseDigits(s, acc) ==
    IF s = <<>> \/ \A d \in 1..10 : DecimalDigits[d] # Head(s) THEN acc
    ELSE ParseDigits(Tail(s), 10 * acc + (CHOOSE d \in 1..10 : DecimalDigits[d] = Head(s)) - 1)

\* parseInt of a string without sign or blanks.  A string that begins with no
\* digit gives NaN, which as an index finds what -1 finds: nothing.
parseInt(s) ==
    IF s = <<>> \/ \A d \in 1..10 : DecimalDigits[d] # Head(s) THEN -1
    ELSE ParseDigits(s, 0)

\* The slider: timeWarpIndex = parseInt(timeWarpSlider.value).
SliderInput ==
    /\ pc = "idle" /\ inputs < MaxInputs
    /\ \E value \in SliderValues : timeWarpIndex' = parseInt(value)
    /\ inputs' = inputs + 1
    /\ UNCHANGED <<pc, ticks, lastTime, hudTimer, simDate, prevDate, cameraMode,
                   orbitAngle, dtReal, dtSimDays>>
    /\ UNCHANGED <<svars, bodies, hvars, kvars, ovars>>

\* animate, lines 81-89.
Animate ==
    /\ pc = "idle" /\ ticks < MaxTicks /\ simDate - StartMs < MaxElapsed
    /\ \E gap \in (IF ticks = 0 THEN FirstGaps ELSE Gaps) : lastTime' = fAdd(lastTime, gap)
    /\ dtReal' = FrameDelta(lastTime', lastTime)
    /\ dtSimDays' = SimDays(dtReal', TIME_WARP_VALUES[timeWarpIndex + 1])
    /\ simDate' = AdvanceDate(simDate, dtReal', TIME_WARP_VALUES[timeWarpIndex + 1])
    /\ prevDate' = simDate
    /\ ticks' = ticks + 1
    /\ pc' = StageAfter("animate")
    /\ UNCHANGED <<inputs, hudTimer, timeWarpIndex, cameraMode, orbitAngle>>
    /\ UNCHANGED <<svars, bodies, hvars, kvars, ovars>>

\* animate, line 92.
UpdateBodies ==
    /\ pc = "updateBodies"
    /\ bodies' = updateBodies(bodies, simDate)
    /\ pc' = StageAfter("updateBodies")
    /\ UNCHANGED <<ticks, inputs, lastTime, hudTimer, timeWarpIndex, simDate, prevDate,
                   cameraMode, orbitAngle, dtReal, dtSimDays>>
    /\ UNCHANGED <<svars, hvars, kvars, ovars>>

\* updateSpacecraft, lines 102-137: the turns, then the thrust.
SteerAndThrust ==
    /\ pc = "steer"
    /\ entry' = [positionAU |-> positionAU, velocityAU |-> velocityAU,
                 quaternion |-> quaternion]
    /\ quaternion' = Steer(quaternion, keys, RotAmount(dtSimDays, dtReal), 1)
    /\ thrusting' = ("KeyW" \in keys \/ "KeyS" \in keys)
    /\ velocityAU' = Thrust(velocityAU, quaternion', keys, dtSimDays)
    /\ pc' = StageAfter("steer")
    /\ UNCHANGED <<ticks, inputs, lastTime, hudTimer, timeWarpIndex, simDate, prevDate,
                   cameraMode, orbitAngle, dtReal, dtSimDays>>
    /\ UNCHANGED <<positionAU, keys, grav, bodies, hvars, kvars, ovars>>

\* updateSpacecraft, lines 140-143.
Gravity ==
    /\ pc = "gravity"
    /\ grav' = computeGravity(positionAU, bodies)
    /\ velocityAU' = Accelerate(velocityAU, grav', dtSimDays)
    /\ pc' = StageAfter("gravity")
    /\ UNCHANGED <<ticks, inputs, lastTime, hudTimer, timeWarpIndex, simDate, prevDate,
                   cameraMode, orbitAngle, dtReal, dtSimDays>>
    /\ UNCHANGED <<positionAU, quaternion, thrusting, keys, entry, bodies, hvars, kvars, ovars>>

\* updateSpacecraft, lines 146-148.
Integrate ==
    /\ pc = "integrate"
    /\ positionAU' = Advance(positionAU, velocityAU, dtSimDays)
    /\ pc' = StageAfter("integrate")
    /\ UNCHANGED <<ticks, inputs, lastTime, hudTimer, timeWarpIndex, simDate, prevDate,
                   cameraMode, orbitAngle, dtReal, dtSimDays>>
    /\ UNCHANGED <<velocityAU, quaternion, thrusting, keys, grav, entry, bodies, hvars,
                   kvars, ovars>>

\* animate, lines 98-105: the orbit camera turns, the HUD is written when its
\* timer has passed a tenth of a second.
Present ==
    /\ pc = "present"
    /\ orbitAngle' = IF cameraMode = 1 THEN fAdd(orbitAngle, fMul(OrbitRate, dtReal))
                     ELSE orbitAngle
    /\ IF fGt(fAdd(hudTimer, dtReal), HudPeriod)
       THEN /\ hud' = updateHUD(positionAU, velocityAU, bodies, timeWarpIndex)
            /\ hudTimer' = Zero
       ELSE /\ hud' = hud
            /\ hudTimer' = fAdd(hudTimer, dtReal)
    /\ pc' = StageAfter("present")
    /\ UNCHANGED <<ticks, inputs, lastTime, timeWarpIndex, simDate, prevDate, cameraMode,
                   dtReal, dtSimDays>>
    /\ UNCHANGED <<svars, bodies, nearest, kvars, ovars>>

Init ==
    /\ GameStart /\ ShipStart
    /\ bodies = createBodies
    /\ hud = NoHud /\ nearest = NoBody
    /\ KeplerOff /\ PathOff

Next ==
    \/ KeyDown \/ KeyUp \/ SliderInput
    \/ Animate \/ UpdateBodies \/ SteerAndThrust \/ Gravity \/ Integrate \/ Present

Spec == Init /\ [][Next]_vars

\* ------------------------------- spacecraft.js: one updateSpacecraft alone
\* updateSpacecraft and the read-outs on a spacecraft, bodies and steps chosen
\* freely: the stages of the frame from "steer" on, then the read-outs.
Body(name, gm, x, y, z) ==
    [name |-> name, GM_AU3_day2 |-> gm, positionAU |-> Vec(x, y, z)]

Far == F(50000000, 30)
Heavy == F(10000000, 23)

BodySets ==
    {\* the Sun and two planets, in the order of their pull at the start point
     <<Body("Sun", GM_SUN_AU3_DAY2, Zero, Zero, Zero),
       Body("Earth", F(88848000, -17), One, Zero, Zero),
       Body("Jupiter", F(28237000, -14), Zero, F(52000000, -7), Zero)>>,
     \* the weakest first, and two of equal pull
     <<Body("Pluto", F(19385000, -19), Zero, F(39000000, -6), Zero),
       Body("Mars", F(95467000, -18), F(15000000, -7), Zero, Zero),
       Body("Twin", F(95467000, -18), F(15000000, -7), Zero, Zero),
       Body("Sun", GM_SUN_AU3_DAY2, Zero, Zero, Zero)>>,
     \* gravity disabled
     <<Body("Sun", Zero, Zero, Zero, Zero),
       Body("Earth", Zero, One, Zero, Zero)>>,
     \* bodies at the start point, within 1e-10 of the origin and just outside
     <<Body("Sun", GM_SUN_AU3_DAY2, Zero, Zero, Zero),
       Body("Here", GM_SUN_AU3_DAY2, F(10500000, -7), Zero, F(10000000, -9)),
       Body("Near", GM_SUN_AU3_DAY2, F(50000000, -18), Zero, Zero),
       Body("Outside", F(88848000, -17), Zero, F(20000000, -17), Zero)>>,
     \* finite, and beyond what the arithmetic carries
     <<Body("Sun", GM_SUN_AU3_DAY2, Zero, Zero, Zero),
       Body("Distant", GM_SUN_AU3_DAY2, fNeg(Far), Zero, Zero)>>,
     <<Body("Massive", Heavy, F(10000000, -16), Zero, Zero),
       Body("Sun", GM_SUN_AU3_DAY2, Zero, Zero, Zero)>>}

ShipPositions ==
    {Vec(F(10500000, -7), Zero, F(10000000, -9)), Origin, Vec(Far, Zero, Zero)}
ShipVelocities == {Vec(Zero, F(17200000, -9), Zero), Origin}
ShipKeys == {{}, {"KeyW"}, {"KeyS"}, {"KeyW", "KeyS"}, {"KeyA"}, {"KeyW", "KeyD", "Space"}}
\* As created, and after a quarter of a radian of yaw and of roll.
ShipAttitudes ==
    {Identity, RotateOn(RotateOn(Identity, "y", F(25000000, -8)), "z", F(25000000, -8))}
\* One day, a frame at warp 1, a frame of 0.1 s at warp 10M, and no time.
SimSteps == {One, F(19328704, -14), F(11574074, -6), Zero}
RealSteps == {F(16700000, -9), MaxDelta}

ShipInit ==
    /\ pc = "steer" /\ ticks = 0 /\ inputs = 0
    /\ lastTime = Zero /\ hudTimer = Zero /\ timeWarpIndex = 0
    /\ simDate = 0 /\ prevDate = 0 /\ cameraMode = 0 /\ orbitAngle = Zero
    /\ dtReal \in RealSteps
    /\ dtSimDays \in SimSteps
    /\ positionAU \in ShipPositions
    /\ velocityAU \in ShipVelocities
    /\ quaternion \in ShipAttitudes
    /\ keys \in ShipKeys
    /\ thrusting = FALSE
    /\ grav = NoGravity
    /\ entry = [positionAU |-> positionAU, velocityAU |-> velocityAU,
                quaternion |-> quaternion]
    /\ bodies \in BodySets
    /\ hud = NoHud /\ nearest = NoBody
    /\ KeplerOff /\ PathOff

\* Variant: the read-outs take each body's offset from the spacecraft by
\* subtracting in place, in the body's own position.
ReadOutInPlace ==
    /\ pc = "present"
    /\ hud' = updateHUD(positionAU, velocityAU, bodies, timeWarpIndex)
    /\ nearest' = findNearestBody(positionAU, bodies)
    /\ bodies' = [i \in DOMAIN bodies |->
                    [bodies[i] EXCEPT !.positionAU =
                        Vec(fSub(bodies[i].positionAU.x, positionAU.x),
                            fSub(bodies[i].positionAU.y, positionAU.y),
                            fSub(bodies[i].positionAU.z, positionAU.z))]]
    /\ pc' = "done"
    /\ UNCHANGED <<ticks, inputs, lastTime, hudTimer, timeWarpIndex, simDate, prevDate,
                   cameraMode, orbitAngle, dtReal, dtSimDays>>
    /\ UNCHANGED <<svars, kvars, ovars>>

\* The read-outs of the HUD and findNearestBody on the state the update left.
ReadOut ==
    /\ pc = "present"
    /\ hud' = updateHUD(positionAU, velocityAU, bodies, timeWarpIndex)
    /\ nearest' = findNearestBody(positionAU, bodies)
    /\ pc' = "done"
    /\ UNCHANGED <<ticks, inputs, lastTime, hudTimer, timeWarpIndex, simDate, prevDate,
                   cameraMode, orbitAngle, dtReal, dtSimDays>>
    /\ UNCHANGED <<svars, bodies, kvars, ovars>>

ShipNext == SteerAndThrust \/ Gravity \/ Integrate \/ ReadOut

SpecShip == ShipInit /\ [][ShipNext]_vars

\* ----------------------------------------- orbits.js: one solveKepler alone
\* The call of lines 23-35, one statement group per step.
KeplerCall ==
    /\ kpc = "call"
    /\ \E m \in {NormalizeM(kM)} :
          /\ kMn' = m
          /\ kE' = InitialGuess(m, kEcc)
    /\ kIter' = 0
    /\ kpc' = "loop"
    /\ UNCHANGED <<kBase, kTurns, kM, kEcc, kdE, kRet>>
    /\ UNCHANGED <<gvars, svars, bodies, hvars, ovars>>

KeplerIterate ==
    /\ kpc = "loop"
    /\ kIter < MaxIter
    /\ \E s \in {NewtonStep(kMn, kEcc, kE)} :
          /\ kE' = s.E
          /\ kdE' = s.dE
          /\ IF Converged(s.dE)
             THEN kpc' = "ret" /\ kRet' = s.E
             ELSE kpc' = "loop" /\ kRet' = kRet
    /\ kIter' = kIter + 1
    /\ UNCHANGED <<kBase, kTurns, kM, kEcc, kMn>>
    /\ UNCHANGED <<gvars, svars, bodies, hvars, ovars>>

KeplerExit ==
    /\ kpc = "loop"
    /\ kIter >= MaxIter
    /\ kpc' = "ret"
    /\ kRet' = kE
    /\ UNCHANGED <<kBase, kTurns, kM, kEcc, kMn, kE, kdE, kIter>>
    /\ UNCHANGED <<gvars, svars, bodies, hvars, ovars>>

\* The arguments tried: M on a grid of quarter radians with whole turns added by
\* the caller, and the edge values of a Number; e inside and outside [0, 1).
MGrid == 25
MaxTurns == 2
KeplerMs ==
    {Lit(25 * i, -2) : i \in 0..MGrid}
        \cup {F(10000000, -10), F(10000000, -9), F(50000000, -9), F(10000000, -8),
              F(62831853, -7), F(-10000000, -19), PosInf, NaN}
KeplerEs ==
    {Zero, F(20563593, -8), F(50000000, -8), F(90000000, -8), F(99000000, -8), One,
     F(15000000, -7), NaN}

KeplerInit ==
    /\ kBase \in KeplerMs
    /\ kTurns \in -MaxTurns..MaxTurns
    /\ kEcc \in KeplerEs
    /\ kM = fAdd(kBase, fMul(TwoPi, Num(kTurns)))
    /\ kMn = Zero /\ kE = Zero /\ kdE = Zero /\ kIter = 0 /\ kRet = Zero
    /\ kpc = "call"
    /\ GameOff /\ PathOff

KeplerNext == KeplerCall \/ KeplerIterate \/ KeplerExit

\* A call under way goes on: the engine runs the statements of a function one
\* after the other until it returns.  The step of a call changes where it
\* stands or the count of its iterations.
KeplerRuns ==
    /\ kpc \in {"call", "loop"}
    /\ kpc' \in {"loop", "ret"}
    /\ kIter' \in 0..MaxIter

SpecKepler == KeplerInit /\ [][KeplerNext]_vars /\ WF_<<kpc, kIter>>(KeplerRuns)

\* ------------------------------------ orbits.js: one computeOrbitPath alone
DefaultSegments == 128
MaxSegments == 5
ClockStep == 1728000000

\* The clock moves on while the call runs.
ClockTick ==
    /\ opc \in {"call", "loop"}
    /\ wall < ClockStep
    /\ wall' = wall + ClockStep
    /\ UNCHANGED <<oElements, oSegments, oCalled, oCurrent, oAngles, oI, oPoints, opc>>
    /\ UNCHANGED <<gvars, svars, bodies, hvars, kvars>>

\* Lines 86-103: T from new Date(), the current elements and their angles.
PathCall ==
    /\ opc = "call"
    /\ oCalled' = wall
    /\ oCurrent' = ElementsAt(oElements, centuriesSinceJ2000(julianDate(wall)))
    /\ oAngles' = Angles(oCurrent')
    /\ oI' = 0
    /\ oPoints' = <<>>
    /\ opc' = "loop"
    /\ UNCHANGED <<wall, oElements, oSegments>>
    /\ UNCHANGED <<gvars, svars, bodies, hvars, kvars>>

\* for (let i = 0; i <= segments; i++) { ... points.push({ x, y, z }); }
\* Variant: i < segments.
PathMoreShort(i, segments) == i < segments
PathMore(i, segments) == i <= segments

PathStep ==
    /\ opc = "loop"
    /\ PathMore(oI, oSegments)
    /\ oPoints' = Append(oPoints, PathPoint(oCurrent, oAngles, oI, oSegments))
    /\ oI' = oI + 1
    /\ UNCHANGED <<wall, oElements, oSegments, oCalled, oCurrent, oAngles, opc>>
    /\ UNCHANGED <<gvars, svars, bodies, hvars, kvars>>

\* return points;
PathReturn ==
    /\ opc = "loop"
    /\ ~PathMore(oI, oSegments)
    /\ opc' = "ret"
    /\ UNCHANGED <<wall, oElements, oSegments, oCalled, oCurrent, oAngles, oI, oPoints>>
    /\ UNCHANGED <<gvars, svars, bodies, hvars, kvars>>

\* Every planet's elements, with the default of segments and with few.
PathInit ==
    /\ wall = StartMs
    /\ oElements \in {PLANETS[i].elements : i \in 1..Len(PLANETS)}
    /\ oSegments \in (1..MaxSegments) \cup {DefaultSegments}
    /\ oCalled = 0 /\ oCurrent = Zero /\ oAngles = Zero /\ oI = 0 /\ oPoints = <<>>
    /\ opc = "call"
    /\ GameOff /\ KeplerOff

PathNext == ClockTick \/ PathCall \/ PathStep \/ PathReturn

SpecOrbitPath == PathInit /\ [][PathNext]_vars

\* ================================================================ Claims
\* ------------------------------------------------------------------ C1
\* C1: in every tick the stages run in the order updateBodies, computeGravity,
\* integrator, each to its end before the next: when computeGravity is about to
\* read them, every planet stands where computePosition puts it for the new
\* simDate; the gravity the integrator uses was computed from those positions
\* and from the position the spacecraft had on entry; the position moves last,
\* by the velocity that gravity has already changed.
C1_StagesInOrder ==
    /\ pc \in {"updateBodies", "steer", "gravity", "integrate", "present"} =>
          simDate = AdvanceDate(prevDate, dtReal, TIME_WARP_VALUES[timeWarpIndex + 1])
    /\ pc = "gravity" =>
          /\ bodies = updateBodies(bodies, simDate)
          /\ positionAU = entry.positionAU
    /\ pc = "integrate" =>
          /\ grav = computeGravity(entry.positionAU, bodies)
          /\ velocityAU = Accelerate(Thrust(entry.velocityAU, quaternion, keys, dtSimDays),
                                     grav, dtSimDays)
          /\ positionAU = entry.positionAU
    /\ pc = "present" =>
          positionAU = Advance(entry.positionAU, velocityAU, dtSimDays)

\* A second frame whose planets have moved since the frame before, at the
\* moment its gravity has been computed.
C1_Witness ==
    /\ pc = "integrate" /\ ticks = 2
    /\ simDate > prevDate
    /\ bodies # updateBodies(bodies, prevDate)
    /\ grav = computeGravity(positionAU, updateBodies(bodies, simDate))
    /\ grav # NoGravity

\* ------------------------------------------------------------------ C2
\* C2: one updateSpacecraft adds the thrust delta to the velocity, then the
\* gravity at the position held on entry times dtSim, then moves the position
\* by the velocity after both: position = old + (oldVelocity + thrustDelta +
\* gravity(old) * dtSim) * dtSim, operation by operation.
C2_UpdateOrder ==
    /\ pc = "gravity" =>
          /\ velocityAU = Thrust(entry.velocityAU, quaternion, keys, dtSimDays)
          /\ positionAU = entry.positionAU
    /\ pc = "integrate" =>
          /\ grav = computeGravity(entry.positionAU, bodies)
          /\ positionAU = entry.positionAU
    /\ pc \in {"present", "done"} =>
          /\ velocityAU =
                Accelerate(Thrust(entry.velocityAU, quaternion, keys, dtSimDays),
                           computeGravity(entry.positionAU, bodies), dtSimDays)
          /\ positionAU =
                Advance(entry.positionAU,
                        Accelerate(Thrust(entry.velocityAU, quaternion, keys, dtSimDays),
                                   computeGravity(entry.positionAU, bodies), dtSimDays),
                        dtSimDays)

\* A call with thrust and gravity both at work over a step long enough to
\* move the spacecraft, where gravity at the new position differs.
C2_Witness ==
    /\ pc = "done" /\ thrusting
    /\ velocityAU # Thrust(entry.velocityAU, quaternion, keys, dtSimDays)
    /\ positionAU # entry.positionAU
    /\ computeGravity(positionAU, bodies) # computeGravity(entry.positionAU, bodies)

\* ------------------------------------------------------------------ C3
C3_Scenario ==
    /\ pc \in {"present", "done"}
    /\ entry.velocityAU = Origin
    /\ "KeyW" \in keys
    /\ dtSimDays = One
    /\ \A i \in 1..Len(bodies) : bodies[i].GM_AU3_day2 = Zero

C4_Remaining(pos) ==
    SelectSeq(bodies, LAMBDA b : ~fLt(Separation(pos, b).r, F(10000000, -17)))
C4_Finite(g) == IsFinite(g.ax) /\ IsFinite(g.ay) /\ IsFinite(g.az)
\* Every coordinate within 10^4 AU and every GM within 1 AU^3/day^2.
C4_Moderate(pos) ==
    /\ \A c \in {pos.x, pos.y, pos.z} : fLe(fAbs(c), F(10000000, -3))
    /\ \A i \in 1..Len(bodies) :
          /\ fLe(fAbs(bodies[i].GM_AU3_day2), One)
          /\ \A c \in {bodies[i].positionAU.x, bodies[i].positionAU.y,
                       bodies[i].positionAU.z} : fLe(fAbs(c), F(10000000, -3))

\* C4 (as stated): for finite positions and finite GM the acceleration that
\* computeGravity returns is never NaN or infinite.
C4_AlwaysFinite == pc = "integrate" => C4_Finite(grav)

\* C4 (amended): a body nearer than 1e-10 AU, r = 0 included, adds nothing:
\* the acceleration returned is the one of the remaining bodies alone; and it
\* is finite when every coordinate is within 10^4 AU and every GM within 1.
C4_SkipsNearBodies ==
    pc = "integrate" =>
        /\ grav = computeGravity(entry.positionAU, C4_Remaining(entry.positionAU))
        /\ C4_Remaining(entry.positionAU) = <<>> => grav = NoGravity
        /\ C4_Moderate(entry.positionAU) => C4_Finite(grav)

\* A call that skips a body at r = 0 and one at 5e-11 AU and sums the others.
C4_Witness ==
    /\ pc = "integrate"
    /\ C4_Moderate(entry.positionAU)
    /\ \E i \in 1..Len(bodies) : bodies[i].positionAU = entry.positionAU
    /\ \E i \in 1..Len(bodies) :
          /\ bodies[i].positionAU # entry.positionAU
          /\ fLt(Separation(entry.positionAU, bodies[i]).r, F(10000000, -17))
    /\ Len(C4_Remaining(entry.positionAU)) \in 1..(Len(bodies) - 2)
    /\ grav # NoGravity

\* ------------------------------------------------------------------ C5
\* The position is one of numbers: no coordinate is NaN or infinite.
C5_Placed == IsFinite(positionAU.x) /\ IsFinite(positionAU.y) /\ IsFinite(positionAU.z)

\* C5: for a spacecraft at any position and any bodies, the rows that
\* getPerBodyGravity returns are in non-increasing order of gravityMs2: for
\* i < j, row i pulls at least as hard as row j.
C5_SortedDescending ==
    pc = "done" /\ C5_Placed =>
        \A i \in 1..Len(hud.perBody) : \A j \in (i + 1)..Len(hud.perBody) :
            fGe(hud.perBody[i].gravityMs2, hud.perBody[j].gravityMs2)

\* A table of four rows that the loop filled in another order than it has.
C5_Witness ==
    /\ pc = "done" /\ C5_Placed
    /\ Len(hud.perBody) = 4
    /\ hud.perBody # Rows(positionAU, bodies, 1, <<>>)
    /\ \E i \in 1..3 : hud.perBody[i].gravityMs2 = hud.perBody[i + 1].gravityMs2
    /\ \E i \in 1..3 : fGt(hud.perBody[i].gravityMs2, hud.perBody[i + 1].gravityMs2)

\* ------------------------------------------------------------------ C6
C6_Stepwise ==
    /\ kIter \in 0..50
    /\ kpc = "loop" /\ kIter > 0 => ~fLt(fAbs(kdE), F(10000000, -15))
    /\ kpc = "ret" =>
          /\ kRet = kE
          /\ kIter >= 1
          /\ fLt(fAbs(kdE), F(10000000, -15)) \/ kIter = 50

\* C6: solveKepler terminates for every M and e: it makes at most 50
\* iterations, leaves the loop at the first whose |dE| is below the tolerance,
\* and either way returns the E it holds.
C6_Terminates == [](C6_Stepwise) /\ <>(kpc = "ret")

\* A call that is ended by the cap, its last step still above the tolerance.
C6_Witness ==
    /\ kpc = "ret" /\ kIter = 50
    /\ ~fLt(fAbs(kdE), F(10000000, -15))
    /\ kEcc = F(15000000, -7)
    /\ IsFinite(kRet)

\* ------------------------------------------------------------------ C7
C7_Supported ==
    /\ kTurns = 0
    /\ fGe(kM, Zero) /\ fLt(kM, TwoPi)
    /\ fGe(kEcc, Zero) /\ fLe(kEcc, F(99000000, -8))
C7_Residual == fAbs(fSub(kM, fSub(kRet, fMul(kEcc, fSin(kRet)))))

\* C7: for e in [0, 0.99] and M in [0, 2 pi) the E returned satisfies
\* |M - (E - e sin E)| < 1e-6.
C7_ResidualSmall ==
    kpc = "ret" /\ C7_Supported => fLt(C7_Residual, F(10000000, -13))

\* The hardest corner: e = 0.99 with M small, solved in several iterations.
C7_Witness ==
    /\ kpc = "ret" /\ C7_Supported
    /\ kEcc = F(99000000, -8)
    /\ fGt(kM, Zero) /\ fLe(kM, F(25000000, -8))
    /\ kIter >= 3
    /\ kRet # kM

\* ------------------------------------------------------------------ C8
C8_Gap(a, b) == fMin(fAbs(fSub(a, b)), fAbs(fSub(TwoPi, fAbs(fSub(a, b)))))

C9_Near(a, b) == fLe(fAbs(fSub(a, b)), F(10000000, -12))
C9_AtCall ==
    ElementsAt(oElements, centuriesSinceJ2000(julianDate(oCalled)))

\* C9 (as stated): segments + 1 points, the first and the last the same point.
C9_ClosedExactly ==
    opc = "ret" =>
        /\ Len(oPoints) = oSegments + 1
        /\ oPoints[1] = oPoints[Len(oPoints)]

\* C9 (amended): computeOrbitPath returns segments + 1 points, every one of
\* them from the elements at the T of the moment of the call, and the first
\* and the last coincide to within 1e-5 AU in each coordinate.
C9_ClosedWithinRounding ==
    opc = "ret" =>
        /\ Len(oPoints) = oSegments + 1
        /\ \A i \in 1..Len(oPoints) :
              oPoints[i] = PathPoint(C9_AtCall, Angles(C9_AtCall), i - 1, oSegments)
        /\ C9_Near(oPoints[1].x, oPoints[Len(oPoints)].x)
        /\ C9_Near(oPoints[1].y, oPoints[Len(oPoints)].y)
        /\ C9_Near(oPoints[1].z, oPoints[Len(oPoints)].z)

\* A path of the default 128 segments returned after the clock has moved on to
\* a time with other elements, its ends apart.
C9_Witness ==
    /\ opc = "ret" /\ oSegments = 128 /\ Len(oPoints) = 129
    /\ wall > oCalled
    /\ ElementsAt(oElements, centuriesSinceJ2000(julianDate(wall))) # C9_AtCall
    /\ oPoints[1] # oPoints[129]

\* ----------------------------------------------------------------- C10
\* C10: whatever the time between two frames, the dtReal of a frame is at most
\* 0.1 s, and with it the date advances by at most 0.1 * timeWarp seconds, the
\* physics step is at most that in days, and the camera and the HUD timer
\* advance by at most 0.1 s of turning and of time.
C10_DeltaCapped ==
    /\ fLe(dtReal, F(10000000, -8))
    /\ pc \notin {"idle", "off"} =>
          /\ fLe(dtSimDays,
                 fMul(fDiv(F(10000000, -8), DAY_TO_S), TIME_WARP_VALUES[timeWarpIndex + 1]))
          /\ simDate - prevDate <=
                FloorInt(fMul(F(10000000, -5), TIME_WARP_VALUES[timeWarpIndex + 1]))
    /\ fLe(hudTimer, F(20000000, -8))
    /\ fLe(orbitAngle, fMul(F(10000000, -9), Num(ticks)))

\* The frame after a stall of five seconds, at the highest time warp.
C10_Witness ==
    /\ pc = "updateBodies" /\ ticks = 2
    /\ fGt(fSub(lastTime, F(25000000, -5)), F(50000000, -4))
    /\ dtReal = F(10000000, -8)
    /\ timeWarpIndex = 7
    /\ simDate - prevDate = 1000000000

\* ------------------------------------------------------------------- C11
C11_Multipliers ==
    {One, F(10000000, -6), F(10000000, -5), F(10000000, -4), F(10000000, -3),
     F(10000000, -2), F(10000000, -1), F(10000000, 0)}

\* C11: whatever slider inputs and frames came before, timeWarpIndex finds an
\* entry of TIME_WARP_VALUES and that entry is one of 1, 10, 100, 1000, 10000,
\* 100000, 1e6, 1e7; in a frame under way dtSimDays is the finite number
\* (dtReal / 86400) * that multiplier and simDate is the date the frame found
\* plus the whole milliseconds of dtReal * 1000 * that multiplier.
C11_MultiplierDefined ==
    /\ timeWarpIndex + 1 \in DOMAIN TIME_WARP_VALUES
    /\ TIME_WARP_VALUES[timeWarpIndex + 1] \in C11_Multipliers
    /\ pc # "idle" =>
          \E w \in C11_Multipliers :
             /\ w = TIME_WARP_VALUES[timeWarpIndex + 1]
             /\ dtSimDays = fMul(fDiv(dtReal, F(86400000, -3)), w)
             /\ IsFinite(dtSimDays)
             /\ simDate = prevDate + FloorInt(fMul(fMul(dtReal, F(10000000, -4)), w))

\* A frame at 10,000,000x after the slider was moved twice.
C11_Witness ==
    /\ pc = "present" /\ inputs = 2 /\ ticks = 2
    /\ timeWarpIndex = 7
    /\ dtSimDays = F(11574074, -6)
    /\ simDate - prevDate = 1000000000

\* ------------------------------------------------------------------- C12
\* C12: in every frame the date advances by exactly dtReal * 1000 * timeWarp
\* milliseconds, and that is the interval dtSimDays * 86,400,000 ms handed to
\* the integrator (the two products compared up to their rounding), so the
\* clock of the planets and the clock of the spacecraft stay together.
C12_ClocksAgree ==
    pc \notin {"idle", "off"} =>
       LET step == fMul(fMul(dtReal, Thousand), TIME_WARP_VALUES[timeWarpIndex + 1])
       IN  /\ Num(simDate - prevDate) = step
           /\ fLe(fAbs(fSub(fMul(dtSimDays, F(86400000, 0)), step)),
                  fMul(step, F(10000000, -13)))

\* ------------------------------------------------------------------- C13
\* C13: the attitude one updateSpacecraft leaves is decided by the attitude it
\* found, the keys held and dtReal alone: it is the attitude found, turned by
\* rotationSpeed * dtReal about the axis of each steering key held, whatever
\* dtSim is; with no steering key held it is the attitude found.
C13_TurnByRealTime ==
    pc \in {"gravity", "integrate", "present", "done"} =>
       /\ quaternion = Steer(entry.quaternion, keys, fMul(Two, dtReal), 1)
       /\ keys \cap {"KeyA", "KeyD", "Space", "ShiftLeft", "ShiftRight", "KeyQ", "KeyE"} = {}
             => quaternion = entry.quaternion
       /\ keys = {"KeyA"}
             => quaternion = QuatMultiply(entry.quaternion,
                                          [x |-> Zero, y |-> fSin(dtReal), z |-> Zero,
                                           w |-> fCos(dtReal)])

\* A yaw of 0.2 rad in a frame of 0.1 s whose simulated step is a whole day.
C13_Witness ==
    /\ pc = "done" /\ keys = {"KeyA"}
    /\ dtReal = F(10000000, -8) /\ dtSimDays = One
    /\ entry.quaternion = Identity
    /\ quaternion = [x |-> Zero, y |-> fSin(F(10000000, -8)), z |-> Zero,
                     w |-> fCos(F(10000000, -8))]

\* ------------------------------------------------------------------- C14
\* C14: the read-outs (updateHUD with getSpeedKmS, getGravityMagnitude,
\* getPerBodyGravity and computeGravity, and findNearestBody) write what they
\* show and nothing else: the step that runs them leaves the spacecraft's
\* position, velocity, attitude, thrust flag and keys and every body's name,
\* GM and position as they were, so the next frame starts from the same state
\* whether they ran or not.
C14_ReadOutsLeaveState ==
    [][pc = "present" =>
          /\ positionAU' = positionAU
          /\ velocityAU' = velocityAU
          /\ quaternion' = quaternion
          /\ thrusting' = thrusting
          /\ keys' = keys
          /\ Len(bodies') = Len(bodies)
          /\ \A i \in DOMAIN bodies :
                /\ bodies'[i].name = bodies[i].name
                /\ bodies'[i].GM_AU3_day2 = bodies[i].GM_AU3_day2
                /\ bodies'[i].positionAU = bodies[i].positionAU]_vars

\* The read-outs have run on a spacecraft that the update has moved, among
\* bodies that are elsewhere: a speed, a table of at least two rows and a
\* nearest body were produced.
C14_Witness ==
    /\ pc = "done"
    /\ positionAU # entry.positionAU
    /\ Len(hud.perBody) >= 2
    /\ fGt(hud.speed, Zero)
    /\ nearest.name # "-"
    /\ \E i \in DOMAIN bodies : bodies[i].positionAU # positionAU

\* ------------------------------------------------------------------- C15
C15_SunFixed ==
    /\ Len(bodies) = NumPlanets + 1
    /\ bodies[1].name = "Sun"
    /\ bodies[1].GM_AU3_day2 = GM_SUN_AU3_DAY2
    /\ bodies[1].positionAU = Vec(Zero, Zero, Zero)
    /\ \A i \in 1..NumPlanets :
          /\ bodies[i + 1].name = PLANETS[i].name
          /\ bodies[i + 1].GM_AU3_day2 = PlanetGM(PLANETS[i])
          /\ bodies[i + 1].elements = PLANETS[i].elements

C15_PlanetsPlaced ==
    pc = "steer" =>
       \A i \in 1..NumPlanets :
          bodies[i + 1].positionAU = computePosition(PLANETS[i].elements, simDate)

\* C15: in every state the Sun is bodies[0] at (0, 0, 0) and every body has
\* the GM and the elements it was created with; when updateBodies has run,
\* every planet stands where computePosition puts it for simDate; and the step
\* that runs updateBodies leaves the spacecraft as it was.
C15_UpdateBodiesFrame ==
    /\ [](C15_SunFixed /\ C15_PlanetsPlaced)
    /\ [][pc = "updateBodies" => svars' = svars]_vars

\* The second frame, after the planets were moved a second time, to other
\* places than the first frame gave them.
C15_Witness ==
    /\ pc = "steer" /\ ticks = 2
    /\ simDate - prevDate > MsPerDay
    /\ bodies[1].positionAU = Origin
    /\ \A i \in 1..NumPlanets :
          /\ bodies[i + 1].positionAU # Origin
          /\ bodies[i + 1].positionAU # computePosition(PLANETS[i].elements, prevDate)

\* ------------------------------------------------------------------- C16
\* C16: in every frame, the first one included, dtReal is at least 0, so
\* dtSimDays is not negative and simDate does not move backward.
C16_NeverBackward ==
    /\ fGe(dtReal, Zero)
    /\ fGe(dtSimDays, Zero)
    /\ simDate >= prevDate

\* ------------------------------------------------------------------- C17
\* thrustAccel * dtSim along the forward direction, in AU axes.
C17_Delta ==
    LET f == Forward(quaternion)
        t == fMul(F(50000000, -11), dtSimDays)
    IN  Vec(fMul(f.x, t), fMul(fNeg(f.z), t), fMul(f.y, t))

C17_Negated(d) == Vec(fNeg(d.x), fNeg(d.y), fNeg(d.z))

\* C17: after an update the thrusting flag is true exactly when KeyW or KeyS
\* was held; the thrust added to the velocity is thrustAccel * dtSim along the
\* forward direction when KeyW is held, alone or together with KeyS, the
\* negation of that, component by component, when KeyS alone is held, and
\* nothing when neither is held.
C17_ThrustBySign ==
    /\ pc \in {"gravity", "integrate", "present", "done"} =>
          (thrusting = TRUE <=> ("KeyW" \in keys \/ "KeyS" \in keys))
    /\ pc = "gravity" =>
          /\ "KeyW" \in keys => velocityAU = VecAdd(entry.velocityAU, C17_Delta)
          /\ "KeyS" \in keys /\ "KeyW" \notin keys =>
                velocityAU = VecAdd(entry.velocityAU, C17_Negated(C17_Delta))
          /\ "KeyS" \notin keys /\ "KeyW" \notin keys => velocityAU = entry.velocityAU

\* Both keys held from rest with the attitude as created, over a step of one
\* day: the velocity is the forward delta, 0.0005 AU/day along +y.
C17_Witness ==
    /\ pc = "gravity" /\ keys = {"KeyW", "KeyS"} /\ thrusting
    /\ entry.velocityAU = Origin /\ entry.quaternion = Identity
    /\ dtSimDays = One
    /\ velocityAU = Vec(Zero, F(50000000, -11), Zero)
====
